---- MODULE Spec2Model ----
(***************************************************************************)
(* A model of google/gax/bundling.py: Task, Executor and Event.            *)
(*                                                                         *)
(* Threads are the callers of Executor.schedule, Event.cancel, Event.set   *)
(* and Event.clear, and the thread of the threading.Timer that             *)
(* Executor._run_later starts.  Every action is one step of one thread; a  *)
(* step holds at most one access to an object that another thread can      *)
(* reach without the Executor's lock: a Task's deque, a field of an Event, *)
(* a caller's request.  A deque's iterator is created in one step and      *)
(* drawn from in later ones; it raises RuntimeError when the deque was     *)
(* changed in between.                                                     *)
(***************************************************************************)
EXTENDS Integers, Sequences, FiniteSets, TLC

VARIABLES
    options,      \* Executor._options: the three thresholds
    bundle_desc,  \* the BundleDescriptor the callers pass (subresponse_field set or not)
    assignable,   \* whether the request type lets its bundled field be assigned
    tasks,        \* Executor._tasks: bundle id -> Task (0: no entry)
    timer,        \* Executor._timer: "None" or "started"
    lock,         \* Executor._task_lock: the thread that holds it, or "free"
    task,         \* the Task objects: queues, template request, and what run() did
    event,        \* the Event objects: result, flag, the canceller's closure
    req,          \* the bundled field of each caller's request object
    thr,          \* each thread's position and local variables
    ncancels,     \* number of cancel(), set() and clear() calls made so far
    escaped,      \* threads out of which an exception has propagated
    id_call       \* a call of compute_bundle_id: its arguments and what it returned

vars == <<options, bundle_desc, assignable, tasks, timer, lock, task, event, req, thr,
          ncancels, escaped, id_call>>

----------------------------------------------------------------------------
(* Bounds of the model. *)

\* schedule calls made in one run (each creates one request and one Event)
MaxCalls == 3
\* calls of cancel() on an Event not cancelled before, of set() and of
\* clear() made in one run
MaxCancels == 1
\* schedule calls made in one run in which the callers interleave freely
MaxConcCalls == 2

Callers == {"c1", "c2"}
TimerThread == "timer"
Threads == Callers \cup {TimerThread}

BundleIds == {1, 2}
\* Event objects: one per schedule call, and those a caller makes itself
EventIds == 1..(MaxCalls + MaxCancels)
TaskIds == 1..MaxCalls

\* the message groups a caller's request may carry in its bundled field
MsgGroups == {<<1>>, <<1, 10>>}

\* gax.BundleOptions the Executor may be built with: no threshold (zeros, or
\* negative values), each threshold alone, count with size, and size with
\* delay
Options(count, size, delay) ==
    [message_count_threshold |-> count, message_bytesize_threshold |-> size,
     delay_threshold |-> delay]

OptionSets == {Options(0, 0, 0), Options(-1, -1, -1), Options(3, 0, 0), Options(0, 3, 0),
               Options(0, 0, 1), Options(3, 3, 0), Options(0, 3, 1)}

----------------------------------------------------------------------------
(* Values. *)

NoneVal == [kind |-> "None", call |-> 0, sub |-> <<>>]

\* Event.__init__: no result, not set, no canceller yet.  task/msgs are the
\* closure of the canceller made by Task._canceller_for; state, cancel and
\* again record what the caller has seen of its schedule call, of its first
\* cancel() and of a repeated cancel(); user records a set() or clear() that
\* a caller has called on it.
NewEvent == [result |-> NoneVal, isset |-> FALSE, task |-> 0, msgs |-> <<>>,
             state |-> "unused", cancel |-> "none", again |-> "none", user |-> "none"]

\* Task.__init__: empty deques.  calls, sent, resp, ranIn and ranEv record
\* what run() did: api_call invocations, the bundled field it sent, what
\* api_call gave back, and the queues run() worked on; overlap records that
\* a schedule or a cancel of another thread was at work on the Task's queues
\* when, or after, the Task was taken out of the registry, and late that a
\* schedule was.
NewTask == [bundle_id |-> 0, subresponse_field |-> FALSE, bundling_request |-> 0,
            in_deque |-> <<>>, event_deque |-> <<>>, overlap |-> FALSE, late |-> FALSE,
            calls |-> 0, sent |-> <<>>, resp |-> NoneVal,
            ranIn |-> <<>>, ranEv |-> <<>>, done |-> FALSE]

\* a thread's locals: msgs of schedule (and the list that the comprehension
\* of run makes), a_task of _run_now, the loop variables of run; stale: the
\* deque under the thread's iterator has been changed since the iterator
\* was made
IdleThread == [pc |-> "idle", h |-> 0, bid |-> 0, t |-> 0, msgs |-> <<>>,
               which |-> "none", a_task |-> 0,
               i |-> 0, cur |-> 0, val |-> NoneVal, sizes |-> <<>>, start |-> 0,
               slicing |-> FALSE, raising |-> FALSE, stale |-> FALSE]

----------------------------------------------------------------------------
(* Pure helpers of the Python code. *)

\* len(str(m)) for a non-negative integer message
RECURSIVE StrLen(_)
StrLen(m) == IF m < 10 THEN 1 ELSE 1 + StrLen(m \div 10)

RECURSIVE SumSeq(_)
SumSeq(s) == IF s = <<>> THEN 0 ELSE Head(s) + SumSeq(Tail(s))

\* [len(msgs) for msgs in self._in_deque]
in_sizes(q) == [k \in 1..Len(q) |-> Len(q[k])]

\* Task.message_count
message_count(q) == SumSeq(in_sizes(q))

\* Task.message_bytesize
message_bytesize(q) ==
    SumSeq([k \in 1..Len(q) |-> SumSeq([j \in 1..Len(q[k]) |-> StrLen(q[k][j])])])

\* mutant: the groups are concatenated last to first
RECURSIVE FlattenBackwards(_)
FlattenBackwards(q) == IF q = <<>> THEN <<>> ELSE FlattenBackwards(Tail(q)) \o Head(q)

\* [m for msgs in self._in_deque for m in msgs]
RECURSIVE Flatten(_)
Flatten(q) == IF q = <<>> THEN <<>> ELSE Head(q) \o Flatten(Tail(q))

Contains(q, v) == \E k \in 1..Len(q) : q[k] = v

\* deque.remove(v): drops the first element equal to v
RemoveFirst(q, v) ==
    LET k == CHOOSE j \in 1..Len(q) : q[j] = v /\ \A l \in 1..(j - 1) : q[l] # v
    IN  SubSeq(q, 1, k - 1) \o SubSeq(q, k + 1, Len(q))

Min(a, b) == IF a < b THEN a ELSE b

\* all_subresponses[start:start + n]
Slice(s, start, n) == SubSeq(s, Min(start, Len(s)) + 1, Min(start + n, Len(s)))

----------------------------------------------------------------------------
(* The state after Executor.__init__, for every choice of options. *)

\* no call of compute_bundle_id is looked at
NoIdCall == [obj1 |-> <<>>, obj2 |-> <<>>, fields |-> <<>>, ids |-> <<>>]

\* an Executor fresh from __init__, nothing scheduled
NewExecutor ==
    /\ tasks = [b \in BundleIds |-> 0]
    /\ timer = "None"
    /\ lock = "free"
    /\ task = [t \in TaskIds |-> NewTask]
    /\ event = [h \in EventIds |-> NewEvent]
    /\ req = [h \in EventIds |-> <<>>]
    /\ thr = [th \in Threads |-> IdleThread]
    /\ ncancels = 0
    /\ escaped = {}

Init ==
    /\ options \in OptionSets
    /\ bundle_desc \in [subresponse_field : BOOLEAN]
    /\ assignable \in BOOLEAN
    /\ id_call = NoIdCall
    /\ NewExecutor

----------------------------------------------------------------------------
(* What a thread does when _run_now, or schedule, hands control back. *)

\* "count_threshold > 0 and ...": the count is taken only for a positive
\* threshold
count_tested == options.message_count_threshold > 0

\* mutant: the size is taken whatever the threshold
size_always_tested == TRUE

\* "size_threshold > 0 and ...": the size is taken only for a positive
\* threshold
size_tested == options.message_bytesize_threshold > 0

\* where schedule goes on after Task.extend ("extend") and after its count
\* check ("count"): to the next property of the Task it has to take, or, with
\* none left, to its return ("idle")
NextCheck(after) ==
    IF after = "extend" /\ count_tested THEN "count_chk"
    ELSE IF size_tested THEN "size_chk"
    ELSE "idle"

\* the thread's locals once _run_now has returned (raising: an exception
\* is propagating instead): the timer's thread ends, schedule goes on to
\* its size check after a count firing, and returns otherwise
ThreadAfter(th, raising) ==
    IF th = TimerThread THEN [IdleThread EXCEPT !.pc = "done"]
    ELSE IF ~raising /\ thr[th].which = "count" /\ NextCheck("count") # "idle"
         THEN [IdleThread EXCEPT !.pc = NextCheck("count"), !.h = thr[th].h,
                                 !.bid = thr[th].bid, !.t = thr[th].t]
         ELSE IdleThread

\* schedule hands its Event to the caller, or the exception reaches the caller
EventsAfter(th, raising) ==
    IF th = TimerThread THEN event
    ELSE IF raising THEN [event EXCEPT ![thr[th].h].state = "raised"]
    ELSE IF thr[th].which = "count" /\ NextCheck("count") # "idle" THEN event
    ELSE [event EXCEPT ![thr[th].h].state = "returned"]

Finish(th, raising) ==
    /\ thr' = [thr EXCEPT ![th] = ThreadAfter(th, raising)]
    /\ event' = EventsAfter(th, raising)
    /\ escaped' = IF raising THEN escaped \cup {th} ELSE escaped

\* thread o holds an iterator over Task t's _in_deque: in message_count or
\* message_bytesize (lines 135, 140), or in run (lines 152, 177)
IteratesIn(o, t) ==
    \/ thr[o].pc \in {"count_sum", "size_sum"} /\ thr[o].t = t
    \/ thr[o].pc \in {"flattening", "sizes"} /\ thr[o].a_task = t

\* thread o holds an iterator over Task t's _event_deque: in one of the
\* loops of lines 163, 167, 182, 187, 195
IteratesEv(o, t) ==
    /\ thr[o].pc \in {"distribute", "distribute_exc", "result", "set"}
    /\ thr[o].a_task = t

\* the threads T after a change of Task t's _in_deque / _event_deque: the
\* iterators over it will raise
MarkIn(T, t) ==
    [o \in Threads |-> IF IteratesIn(o, t) THEN [T[o] EXCEPT !.stale = TRUE] ELSE T[o]]

MarkEv(T, t) ==
    [o \in Threads |-> IF IteratesEv(o, t) THEN [T[o] EXCEPT !.stale = TRUE] ELSE T[o]]

\* Task t has been taken out of the registry
Popped(t) == tasks[task[t].bundle_id] # t

----------------------------------------------------------------------------
(* Executor.schedule, up to the threshold checks. *)

\* schedule calls begun so far
CallsMade == Cardinality({h \in EventIds : event[h].state \notin {"unused", "own"}})

FreshEvent == CHOOSE h \in EventIds :
                 event[h].state = "unused" /\ \A g \in 1..(h - 1) : event[g].state # "unused"
\* an Event a caller constructs itself (taken from the far end of the pool)
OwnEvent == CHOOSE h \in EventIds :
               event[h].state = "unused" /\ \A g \in EventIds : g > h => event[g].state # "unused"
\* mutant: the Task object made first is taken again
FirstTask == CHOOSE t \in TaskIds : \A u \in TaskIds : t <= u

\* the Task object that Task(...) constructs
FreshTask == CHOOSE t \in TaskIds :
                 task[t].bundle_id = 0 /\ \A u \in 1..(t - 1) : task[u].bundle_id # 0

\* the bundle ids a call may name: one already used, or the next unused one
\* (the ids are interchangeable, so they are taken into use in order)
FreshBundleIds ==
    {b \in BundleIds : \A a \in 1..(b - 1) : \E t \in TaskIds : task[t].bundle_id = a}

\* Executor._run_later: the Executor's _timer and the timer's thread after
\* the call; a timer is created and started only while _timer is None
run_later(bid) ==
    IF timer = "None"
    THEN [timer |-> "started",
          thread |-> [IdleThread EXCEPT !.pc = "pending", !.bid = bid]]
    ELSE [timer |-> timer, thread |-> thr[TimerThread]]

\* schedule is called with a request whose bundled field holds msgs;
\* _bundle_for finds or creates the Task under the lock
bundle_for(th) ==
    /\ th \in Callers
    /\ thr[th].pc = "idle"
    /\ lock = "free"
    /\ CallsMade < MaxCalls
    /\ \E bid \in FreshBundleIds, msgs \in MsgGroups :
         LET h == FreshEvent
             found == tasks[bid]
             t == IF found = 0 THEN FreshTask ELSE found
             later == IF found = 0 /\ options.delay_threshold > 0
                      THEN run_later(bid)
                      ELSE [timer |-> timer, thread |-> thr[TimerThread]]
         IN  /\ req' = [req EXCEPT ![h] = msgs]
             /\ event' = [event EXCEPT ![h].state = "running"]
             /\ task' = IF found # 0 THEN task
                        ELSE [task EXCEPT ![t] =
                                [NewTask EXCEPT !.bundle_id = bid,
                                   !.subresponse_field = bundle_desc.subresponse_field,
                                   !.bundling_request = h]]
             /\ tasks' = [tasks EXCEPT ![bid] = t]
             /\ timer' = later.timer
             /\ thr' = [thr EXCEPT
                          ![TimerThread] = later.thread,
                          ![th] = [IdleThread EXCEPT !.pc = "getattr", !.h = h,
                                                     !.bid = bid, !.t = t]]
    /\ UNCHANGED <<id_call, options, bundle_desc, assignable, lock, ncancels, escaped>>

\* msgs = getattr(bundling_request, bundle_desc.bundled_field): the field is
\* read after _bundle_for has released the lock
getattr_msgs(th) ==
    /\ thr[th].pc = "getattr"
    /\ thr' = [thr EXCEPT ![th].pc = "extend_in", ![th].msgs = req[thr[th].h]]
    /\ UNCHANGED <<id_call, options, bundle_desc, assignable, tasks, timer, lock, task, event,
                   req, ncancels, escaped>>

\* Task.extend, first half: self._in_deque.append(msgs)
extend_in(th) ==
    /\ thr[th].pc = "extend_in"
    /\ LET h == thr[th].h
           t == thr[th].t
       IN  /\ task' = [task EXCEPT ![t].in_deque = Append(@, thr[th].msgs),
                                   ![t].overlap = @ \/ Popped(t),
                                   ![t].late = @ \/ Popped(t)]
           /\ event' = [event EXCEPT ![h].msgs = thr[th].msgs]
           /\ thr' = MarkIn([thr EXCEPT ![th].pc = "extend_ev"], t)
    /\ UNCHANGED <<id_call, options, bundle_desc, assignable, tasks, timer, lock, req, ncancels, escaped>>

\* Task.extend, second half: event = self._event_for(msgs);
\* self._event_deque.append(event); with no threshold to test schedule
\* returns the Event
extend_event(th) ==
    /\ thr[th].pc = "extend_ev"
    /\ LET h == thr[th].h
           t == thr[th].t
           to == NextCheck("extend")
       IN  /\ task' = [task EXCEPT ![t].event_deque = Append(@, h),
                                   ![t].overlap = @ \/ Popped(t),
                                   ![t].late = @ \/ Popped(t)]
           /\ event' = [event EXCEPT ![h].task = t,
                                     ![h].state = IF to = "idle" THEN "returned" ELSE @]
           /\ thr' = MarkEv([thr EXCEPT ![th] = IF to = "idle" THEN IdleThread
                                                 ELSE [@ EXCEPT !.pc = to]], t)
    /\ UNCHANGED <<id_call, options, bundle_desc, assignable, tasks, timer, lock, req, ncancels, escaped>>

\* mutant: the threshold has to be exceeded
count_exceeded(q) == message_count(q) > options.message_count_threshold

\* bundle.message_count >= count_threshold
count_reached(q) == message_count(q) >= options.message_count_threshold

\* bundle.message_bytesize >= size_threshold
size_reached(q) == message_bytesize(q) >= options.message_bytesize_threshold

\* schedule: "Run the bundle if the count threshold was reached.":
\* message_count makes its iterator over _in_deque
count_check(th) ==
    /\ thr[th].pc = "count_chk"
    /\ thr' = [thr EXCEPT ![th].pc = "count_sum", ![th].stale = FALSE]
    /\ UNCHANGED <<id_call, options, bundle_desc, assignable, tasks, timer, lock, task, event, req,
                   ncancels, escaped>>

\* message_count has drawn the groups from its iterator (RuntimeError leaves
\* schedule when _in_deque was changed meanwhile) and the sum is compared;
\* below the threshold, and with no size to test, schedule returns its Event
count_sum(th) ==
    /\ thr[th].pc = "count_sum"
    /\ IF thr[th].stale
       THEN Finish(th, TRUE)
       ELSE IF count_reached(task[thr[th].t].in_deque)
       THEN /\ thr' = [thr EXCEPT ![th].pc = "run_now", ![th].which = "count"]
            /\ UNCHANGED <<event, escaped>>
       ELSE IF NextCheck("count") # "idle"
       THEN /\ thr' = [thr EXCEPT ![th].pc = NextCheck("count")]
            /\ UNCHANGED <<event, escaped>>
       ELSE /\ thr' = [thr EXCEPT ![th] = IdleThread]
            /\ event' = [event EXCEPT ![thr[th].h].state = "returned"]
            /\ UNCHANGED escaped
    /\ UNCHANGED <<id_call, options, bundle_desc, assignable, tasks, timer, lock, task, req,
                   ncancels>>

\* schedule: "Run the bundle if the size threshold was reached.":
\* message_bytesize makes its iterator over _in_deque
size_check(th) ==
    /\ thr[th].pc = "size_chk"
    /\ thr' = [thr EXCEPT ![th].pc = "size_sum", ![th].stale = FALSE]
    /\ UNCHANGED <<id_call, options, bundle_desc, assignable, tasks, timer, lock, task, event,
                   req, ncancels, escaped>>

\* message_bytesize has drawn the groups from its iterator (RuntimeError
\* leaves schedule when _in_deque was changed meanwhile) and the sum is
\* compared; below the threshold schedule returns its Event
size_sum(th) ==
    /\ thr[th].pc = "size_sum"
    /\ IF thr[th].stale
       THEN Finish(th, TRUE)
       ELSE IF size_reached(task[thr[th].t].in_deque)
       THEN /\ thr' = [thr EXCEPT ![th].pc = "run_now", ![th].which = "size"]
            /\ UNCHANGED <<event, escaped>>
       ELSE /\ thr' = [thr EXCEPT ![th] = IdleThread]
            /\ event' = [event EXCEPT ![thr[th].h].state = "returned"]
            /\ UNCHANGED escaped
    /\ UNCHANGED <<id_call, options, bundle_desc, assignable, tasks, timer, lock, task, req, ncancels>>

\* the delay has passed: the timer's thread calls self._run_now(bundle_id)
timer_fire(th) ==
    /\ th = TimerThread
    /\ thr[th].pc = "pending"
    /\ thr' = [thr EXCEPT ![th].pc = "run_now", ![th].which = "timer"]
    /\ UNCHANGED <<id_call, options, bundle_desc, assignable, tasks, timer, lock, task, event, req,
                   ncancels, escaped>>

----------------------------------------------------------------------------
(* Executor._run_now and Task.run. *)

\* mutant: the Task is looked up but left in the registry
pop_keeps(bid) == tasks

\* a_task = self._tasks.pop(bundle_id): the registry without the entry
pop(bid) == [tasks EXCEPT ![bid] = 0]

\* a schedule call that looked Task t up has not appended its Event yet
Extending(t) ==
    \E o \in Callers : thr[o].pc \in {"getattr", "extend_in", "extend_ev"} /\ thr[o].t = t

\* a schedule call is halfway on Task t, or a canceller has removed an Event
\* of t and not yet its messages
Halfway(t) ==
    \/ Extending(t)
    \/ \E o \in Callers : thr[o].pc = "cancel_msgs" /\ event[thr[o].h].task = t

\* Executor._run_now takes the lock and pops the Task; Task.run returns at
\* once when len(self._in_deque) == 0 (and the with block releases the lock)
run_now(th) ==
    /\ thr[th].pc = "run_now"
    /\ lock = "free"
    /\ LET bid == thr[th].bid
           t == tasks[bid]
       IN  IF t = 0
           THEN /\ Finish(th, FALSE)
                /\ UNCHANGED <<tasks, task, lock>>
           ELSE /\ tasks' = pop(bid)
                /\ task' = [task EXCEPT ![t].overlap = Halfway(t),
                                        ![t].late = Extending(t)]
                /\ IF Len(task[t].in_deque) = 0
                   THEN /\ Finish(th, FALSE)
                        /\ UNCHANGED lock
                   ELSE /\ lock' = th
                        /\ thr' = [thr EXCEPT ![th].pc = "flatten", ![th].a_task = t]
                        /\ UNCHANGED <<event, escaped>>
    /\ UNCHANGED <<id_call, options, bundle_desc, assignable, timer, req, ncancels>>

\* Task.run, line 152: the list comprehension makes its iterator over
\* self._in_deque
flatten_begin(th) ==
    /\ thr[th].pc = "flatten"
    /\ thr' = [thr EXCEPT ![th].pc = "flattening", ![th].stale = FALSE]
    /\ UNCHANGED <<id_call, options, bundle_desc, assignable, tasks, timer, lock, task, event,
                   req, ncancels, escaped>>

\* the comprehension has drawn the groups and made its list (RuntimeError
\* when _in_deque was changed meanwhile).  An exception here is outside
\* every try: it leaves run, the with block of _run_now releases the lock,
\* and the queues stay as they are.
flatten_end(th) ==
    /\ thr[th].pc = "flattening"
    /\ LET t == thr[th].a_task
       IN  IF thr[th].stale
           THEN /\ Finish(th, TRUE)
                /\ lock' = "free"
                /\ UNCHANGED task
           ELSE /\ task' = [task EXCEPT ![t].ranIn = task[t].in_deque]
                /\ thr' = [thr EXCEPT ![th].pc = "setattr",
                                      ![th].msgs = Flatten(task[t].in_deque)]
                /\ UNCHANGED <<event, escaped, lock>>
    /\ UNCHANGED <<id_call, options, bundle_desc, assignable, tasks, timer, req, ncancels>>

\* setattr(req, self.bundled_field, [...]) puts the list on the template
\* request, or raises when the request type refuses the assignment (outside
\* every try, as above); then api_call is entered with the request
setattr_req(th) ==
    /\ thr[th].pc = "setattr"
    /\ LET t == thr[th].a_task
       IN  IF ~assignable
           THEN /\ Finish(th, TRUE)
                /\ lock' = "free"
                /\ UNCHANGED <<task, req>>
           ELSE /\ req' = [req EXCEPT ![task[t].bundling_request] = thr[th].msgs]
                /\ task' = [task EXCEPT ![t].sent = thr[th].msgs,
                                        ![t].calls = @ + 1]
                /\ thr' = [thr EXCEPT ![th].pc = "api"]
                /\ UNCHANGED <<event, escaped, lock>>
    /\ UNCHANGED <<id_call, options, bundle_desc, assignable, tasks, timer, ncancels>>

\* what api_call may do with a bundled request of n messages: raise, or
\* return a response; a response to a Task with a subresponse field carries
\* n subresponses, or one fewer or one more than that
ApiOutcomes(t) ==
    IF task[t].subresponse_field THEN {"raise", "match", "shorter", "longer"}
    ELSE {"raise", "ok"}

\* the response object: its identity is the call that made it, and its
\* subresponse field numbers the subresponses by position
Response(t, outcome) ==
    LET n == CASE outcome = "match" -> Len(task[t].sent)
               [] outcome = "shorter" -> Len(task[t].sent) - 1
               [] outcome = "longer" -> Len(task[t].sent) + 1
               [] OTHER -> 0
    IN  [kind |-> "resp", call |-> t, sub |-> [k \in 1..n |-> k]]

ApiError(t) == [kind |-> "ApiError", call |-> t, sub |-> <<>>]
RuntimeError(t) == [kind |-> "RuntimeError", call |-> t, sub |-> <<>>]

\* mutant: a try with a finally but no except clause
no_except_handler(th, exc) == [thr[th] EXCEPT !.pc = "finally", !.raising = TRUE]

\* "except Exception as exc": the thread enters the handler with exc as the
\* value to hand out
except_handler(th, exc) == [thr[th] EXCEPT !.pc = "except", !.val = exc]

\* mutant: only too few subresponses count as a mismatch
demux_enough(all_subresponses, sizes) == Len(all_subresponses) >= SumSeq(sizes)

\* the subresponses can be split among the callers
demux_matches(all_subresponses, sizes) == Len(all_subresponses) = SumSeq(sizes)

\* api_call returns or raises (lines 162, 176); with a subresponse field the
\* comprehension of line 177 makes its iterator over self._in_deque, without
\* one the loop of line 163 makes its iterator over self._event_deque
api_return(th) ==
    /\ thr[th].pc = "api"
    /\ LET t == thr[th].a_task
       IN  \E outcome \in ApiOutcomes(t) :
             IF outcome = "raise"
             THEN /\ thr' = [thr EXCEPT ![th] = except_handler(th, ApiError(t))]
                  /\ task' = [task EXCEPT ![t].resp = ApiError(t)]
             ELSE IF task[t].subresponse_field
             THEN /\ thr' = [thr EXCEPT ![th].pc = "sizes",
                                        ![th].val = Response(t, outcome),
                                        ![th].stale = FALSE]
                  /\ task' = [task EXCEPT ![t].resp = Response(t, outcome)]
             ELSE /\ thr' = [thr EXCEPT ![th].pc = "distribute", ![th].i = 1,
                                        ![th].val = Response(t, outcome),
                                        ![th].stale = FALSE]
                  /\ task' = [task EXCEPT ![t].resp = Response(t, outcome),
                                          ![t].ranEv = task[t].event_deque]
    /\ UNCHANGED <<id_call, options, bundle_desc, assignable, tasks, timer, lock, event, req, ncancels, escaped>>

\* in_sizes has been drawn from the iterator (RuntimeError, caught by the
\* except clause, when _in_deque was changed meanwhile); lines 178-179
\* compare the number of subresponses with sum(in_sizes)
sizes_end(th) ==
    /\ thr[th].pc = "sizes"
    /\ LET t == thr[th].a_task
           sizes == in_sizes(task[t].in_deque)
           split == demux_matches(thr[th].val.sub, sizes)
       IN  thr' = IF thr[th].stale
                  THEN [thr EXCEPT ![th] = except_handler(th, RuntimeError(t))]
                  ELSE [thr EXCEPT ![th].pc = "loop", ![th].slicing = split,
                                   ![th].sizes = IF split THEN sizes ELSE <<>>]
    /\ UNCHANGED <<id_call, options, bundle_desc, assignable, tasks, timer, lock, task, event,
                   req, ncancels, escaped>>

\* "for event in self._event_deque" / "for i, event in zip(in_sizes,
\* self._event_deque)" of _run_with_subresponses (lines 182, 187): the
\* iterator over the deque is made
loop_begin(th) ==
    /\ thr[th].pc = "loop"
    /\ thr' = [thr EXCEPT ![th].pc = "distribute", ![th].i = 1, ![th].start = 0,
                          ![th].stale = FALSE]
    /\ task' = [task EXCEPT ![thr[th].a_task].ranEv = task[thr[th].a_task].event_deque]
    /\ UNCHANGED <<id_call, options, bundle_desc, assignable, tasks, timer, lock, event, req,
                   ncancels, escaped>>

\* "for event in self._event_deque" in the except block (lines 167, 195):
\* the iterator over the deque is made
except_begin(th) ==
    /\ thr[th].pc = "except"
    /\ thr' = [thr EXCEPT ![th].pc = "distribute_exc", ![th].i = 1, ![th].slicing = FALSE,
                          ![th].stale = FALSE]
    /\ task' = [task EXCEPT ![thr[th].a_task].ranEv = task[thr[th].a_task].event_deque]
    /\ UNCHANGED <<id_call, options, bundle_desc, assignable, tasks, timer, lock, event, req,
                   ncancels, escaped>>

\* next_copy = copy.copy(resp); setattr(next_copy, subresponse_field,
\* all_subresponses[start:start + i])
next_copy(resp, start, n) == [resp EXCEPT !.sub = Slice(resp.sub, start, n)]

\* the loop of the try block draws its next Event: zip ends when in_sizes
\* is used up, the deque's iterator raises RuntimeError (caught by the
\* except clause) when the deque was changed since the loop began, and ends
\* after the last Event
distribute(th) ==
    /\ thr[th].pc = "distribute"
    /\ LET t == thr[th].a_task
           q == task[t].event_deque
           i == thr[th].i
       IN  thr' = IF thr[th].slicing /\ i > Len(thr[th].sizes)
                  THEN [thr EXCEPT ![th].pc = "finally"]
                  ELSE IF thr[th].stale
                  THEN [thr EXCEPT ![th] = except_handler(th, RuntimeError(t))]
                  ELSE IF i > Len(q)
                  THEN [thr EXCEPT ![th].pc = "finally"]
                  ELSE [thr EXCEPT ![th].pc = "result", ![th].cur = q[i]]
    /\ UNCHANGED <<id_call, options, bundle_desc, assignable, tasks, timer, lock, task, event,
                   req, ncancels, escaped>>

\* the loop of the except block draws its next Event; a RuntimeError of the
\* iterator leaves the handler and propagates
distribute_exc(th) ==
    /\ thr[th].pc = "distribute_exc"
    /\ LET t == thr[th].a_task
           q == task[t].event_deque
           i == thr[th].i
       IN  thr' = IF thr[th].stale
                  THEN [thr EXCEPT ![th].pc = "finally", ![th].raising = TRUE]
                  ELSE IF i > Len(q)
                  THEN [thr EXCEPT ![th].pc = "finally"]
                  ELSE [thr EXCEPT ![th].pc = "result", ![th].cur = q[i]]
    /\ UNCHANGED <<id_call, options, bundle_desc, assignable, tasks, timer, lock, task, event,
                   req, ncancels, escaped>>

\* event.result = resp / next_copy / exc (lines 164, 168, 183, 192, 196)
loop_result(th) ==
    /\ thr[th].pc = "result"
    /\ LET value == IF thr[th].slicing
                    THEN next_copy(thr[th].val, thr[th].start, thr[th].sizes[thr[th].i])
                    ELSE thr[th].val
       IN  event' = [event EXCEPT ![thr[th].cur].result = value]
    /\ thr' = [thr EXCEPT ![th].pc = "set"]
    /\ UNCHANGED <<id_call, options, bundle_desc, assignable, tasks, timer, lock, task, req,
                   ncancels, escaped>>

\* event.set() (lines 165, 169, 184, 193, 197), and on to the next turn of
\* the loop
loop_set(th) ==
    /\ thr[th].pc = "set"
    /\ event' = [event EXCEPT ![thr[th].cur].isset = TRUE]
    /\ thr' = [thr EXCEPT
                 ![th].pc = IF thr[th].val.kind = "resp" THEN "distribute"
                            ELSE "distribute_exc",
                 ![th].i = @ + 1,
                 ![th].start = IF thr[th].slicing THEN @ + thr[th].sizes[thr[th].i] ELSE @,
                 ![th].cur = 0]
    /\ UNCHANGED <<id_call, options, bundle_desc, assignable, tasks, timer, lock, task, req,
                   ncancels, escaped>>

\* finally: self._in_deque.clear()
finally_in(th) ==
    /\ thr[th].pc = "finally"
    /\ LET t == thr[th].a_task
       IN  /\ task' = [task EXCEPT ![t].in_deque = <<>>]
           /\ thr' = IF task[t].in_deque = <<>>
                     THEN [thr EXCEPT ![th].pc = "finally_ev"]
                     ELSE MarkIn([thr EXCEPT ![th].pc = "finally_ev"], t)
    /\ UNCHANGED <<id_call, options, bundle_desc, assignable, tasks, timer, lock, event, req, ncancels, escaped>>

\* finally: self._event_deque.clear(); run returns (or the exception goes
\* on) and _run_now's with block releases the lock
finally_event(th) ==
    /\ thr[th].pc = "finally_ev"
    /\ task' = [task EXCEPT ![thr[th].a_task].event_deque = <<>>,
                            ![thr[th].a_task].done = TRUE]
    /\ lock' = "free"
    /\ Finish(th, thr[th].raising)
    /\ UNCHANGED <<id_call, options, bundle_desc, assignable, tasks, timer, req, ncancels>>

----------------------------------------------------------------------------
(* Event.cancel and the canceller of Task._canceller_for. *)

\* mutant: a cancel() that fails reports success
cancel_never_fails(e, value) ==
    LET v == IF value = "False" THEN "True" ELSE value
    IN  IF e.cancel \in {"none", "calling"} THEN [e EXCEPT !.cancel = v]
        ELSE [e EXCEPT !.again = v]

\* the Event after cancel() has got as far as value ("calling": inside the
\* canceller), for a first or for a repeated cancel() on it
cancel_result(e, value) ==
    IF e.cancel \in {"none", "calling"} THEN [e EXCEPT !.cancel = value]
    ELSE [e EXCEPT !.again = value]

\* cancel() is called on an Event that schedule returned, for the first
\* time, or once again after a cancel() that returned True (one such
\* repeat in a run); the canceller first does
\* self._event_deque.remove(event), ValueError making it False
cancel_event(th) ==
    /\ th \in Callers
    /\ thr[th].pc = "idle"
    /\ \E h \in EventIds :
         /\ event[h].state = "returned"
         /\ \/ event[h].cancel = "none" /\ ncancels < MaxCancels
            \/ /\ event[h].cancel = "True"
               /\ \A g \in EventIds : event[g].again = "none"
         /\ LET t == event[h].task
            IN  IF Contains(task[t].event_deque, h)
                THEN /\ task' = [task EXCEPT
                                   ![t].event_deque = RemoveFirst(@, h),
                                   ![t].overlap = @ \/ Popped(t)]
                     /\ event' = [event EXCEPT ![h] = cancel_result(@, "calling")]
                     /\ thr' = MarkEv([thr EXCEPT ![th].pc = "cancel_msgs", ![th].h = h], t)
                ELSE /\ event' = [event EXCEPT ![h] = cancel_result(@, "False")]
                     /\ UNCHANGED <<task, thr>>
         /\ ncancels' = IF event[h].cancel = "none" THEN ncancels + 1 ELSE ncancels
    /\ UNCHANGED <<id_call, options, bundle_desc, assignable, tasks, timer, lock, req, escaped>>

\* the canceller goes on: self._in_deque.remove(msgs) and True, or
\* ValueError and False
cancel_msgs(th) ==
    /\ thr[th].pc = "cancel_msgs"
    /\ LET h == thr[th].h
           t == event[h].task
       IN  IF Contains(task[t].in_deque, event[h].msgs)
           THEN /\ task' = [task EXCEPT ![t].in_deque = RemoveFirst(@, event[h].msgs),
                                        ![t].overlap = @ \/ Popped(t)]
                /\ event' = [event EXCEPT ![h] = cancel_result(@, "True")]
                /\ thr' = MarkIn([thr EXCEPT ![th] = IdleThread], t)
           ELSE /\ event' = [event EXCEPT ![h] = cancel_result(@, "False")]
                /\ thr' = [thr EXCEPT ![th] = IdleThread]
                /\ UNCHANGED task
    /\ UNCHANGED <<id_call, options, bundle_desc, assignable, tasks, timer, lock, req, ncancels, escaped>>

\* a caller makes an Event of its own, Event(), and calls cancel() on it
\* (once in a run): self.canceller is None and Event.cancel returns False
cancel_no_canceller(th) ==
    /\ th \in Callers
    /\ thr[th].pc = "idle"
    /\ ncancels < MaxCancels
    /\ \A h \in EventIds : event[h].state # "own"
    /\ event' = [event EXCEPT ![OwnEvent] = [NewEvent EXCEPT !.state = "own",
                                                             !.cancel = "False"]]
    /\ ncancels' = ncancels + 1
    /\ UNCHANGED <<id_call, options, bundle_desc, assignable, tasks, timer, lock, task, req, thr,
                   escaped>>

----------------------------------------------------------------------------
(* Event.set and Event.clear, called by a caller on an Event it holds. *)

\* Event.set(): self._event.set()
event_set(th) ==
    /\ th \in Callers
    /\ thr[th].pc = "idle"
    /\ ncancels < MaxCancels
    /\ \E h \in EventIds :
         /\ event[h].state = "returned"
         /\ event' = [event EXCEPT ![h].isset = TRUE, ![h].user = "set"]
    /\ ncancels' = ncancels + 1
    /\ UNCHANGED <<id_call, options, bundle_desc, assignable, tasks, timer, lock, task, req, thr,
                   escaped>>

\* Event.clear(), first statement: self.result = None
event_clear(th) ==
    /\ th \in Callers
    /\ thr[th].pc = "idle"
    /\ ncancels < MaxCancels
    /\ \E h \in EventIds :
         /\ event[h].state = "returned"
         /\ event' = [event EXCEPT ![h].result = NoneVal, ![h].user = "clear"]
         /\ thr' = [thr EXCEPT ![th].pc = "clear_flag", ![th].h = h]
    /\ ncancels' = ncancels + 1
    /\ UNCHANGED <<id_call, options, bundle_desc, assignable, tasks, timer, lock, task, req,
                   escaped>>

\* Event.clear(), second statement: return self._event.clear()
event_clear_flag(th) ==
    /\ thr[th].pc = "clear_flag"
    /\ event' = [event EXCEPT ![thr[th].h].isset = FALSE]
    /\ thr' = [thr EXCEPT ![th] = IdleThread]
    /\ UNCHANGED <<id_call, options, bundle_desc, assignable, tasks, timer, lock, task, req,
                   ncancels, escaped>>

----------------------------------------------------------------------------
(* compute_bundle_id. *)

\* Python values a discriminator field may hold: integers, strings (as
\* sequences of characters) and None
PyInt(n) == [type |-> "int", n |-> n, s |-> <<>>]
PyStr(cs) == [type |-> "str", n |-> 0, s |-> cs]
PyNone == [type |-> "NoneType", n |-> 0, s |-> <<>>]

DigitChars == <<"0", "1", "2", "3", "4", "5", "6", "7", "8", "9">>

\* the decimal digits of a non-negative integer
RECURSIVE Digits(_)
Digits(n) == IF n < 10 THEN <<DigitChars[n + 1]>>
             ELSE Append(Digits(n \div 10), DigitChars[(n % 10) + 1])

\* str(v)
str(v) == CASE v.type = "int" -> PyStr(Digits(v.n))
            [] v.type = "str" -> v
            [] OTHER -> PyStr(<<"N", "o", "n", "e">>)

\* the values, request objects and lists of field names the calls are made
\* with; a field name is given as its parts between the dots
IdValues == {PyInt(1), PyStr(<<"1">>), PyInt(10), PyStr(<<"1", "0">>), PyNone}
IdRequests == [a : IdValues, b : [c : IdValues]]
IdFieldLists == {<< <<"a">> >>, << <<"b", "c">> >>,
                 << <<"a">>, <<"b", "c">> >>, << <<"b", "c">>, <<"a">> >>}

getattr(obj, part) == obj[part]

\* for part in name.split('.'): obj = getattr(obj, part)
RECURSIVE Traverse(_, _)
Traverse(obj, parts) ==
    IF parts = <<>> THEN obj ELSE Traverse(getattr(obj, Head(parts)), Tail(parts))

\* _str_dotted_getattr: a name without a dot is looked up and returned as it
\* is; a dotted name is followed through and its value stringified unless
\* it is None
str_dotted_getattr(obj, name) ==
    IF Len(name) = 1 THEN getattr(obj, name[1])
    ELSE LET v == Traverse(obj, name)
         IN  IF v # PyNone THEN str(v) ELSE PyNone

\* compute_bundle_id: the tuple of the fields' values, in the order of the fields
compute_bundle_id(obj, fields) ==
    [k \in 1..Len(fields) |-> str_dotted_getattr(obj, fields[k])]

\* compute_bundle_id is called on two request objects with one list of fields
compute ==
    /\ id_call.ids = <<>>
    /\ id_call' = [id_call EXCEPT !.ids = <<compute_bundle_id(id_call.obj1, id_call.fields),
                                            compute_bundle_id(id_call.obj2, id_call.fields)>>]
    /\ UNCHANGED <<options, bundle_desc, assignable, tasks, timer, lock, task, event, req,
                   thr, ncancels, escaped>>

----------------------------------------------------------------------------
(* The specifications. *)

\* the callers are interchangeable: the one named c1 makes the first call
MayCall(th) == /\ CallsMade < MaxConcCalls
               /\ th = "c1" \/ CallsMade > 0

\* any interleaving of the threads' steps
Next ==
    \E th \in Threads :
        \/ MayCall(th) /\ bundle_for(th)
        \/ getattr_msgs(th)
        \/ extend_in(th)
        \/ extend_event(th)
        \/ count_check(th)
        \/ count_sum(th)
        \/ size_check(th)
        \/ size_sum(th)
        \/ timer_fire(th)
        \/ run_now(th)
        \/ flatten_begin(th)
        \/ flatten_end(th)
        \/ setattr_req(th)
        \/ api_return(th)
        \/ sizes_end(th)
        \/ loop_begin(th)
        \/ except_begin(th)
        \/ distribute(th)
        \/ distribute_exc(th)
        \/ loop_result(th)
        \/ loop_set(th)
        \/ finally_in(th)
        \/ finally_event(th)
        \/ cancel_event(th)
        \/ cancel_msgs(th)
        \/ cancel_no_canceller(th)
        \/ event_set(th)
        \/ event_clear(th)
        \/ event_clear_flag(th)

Spec == Init /\ [][Next]_vars

\* one caller, whose calls of schedule and cancel come one after the other
\* (and who leaves set and clear alone), and the timer's thread, which runs
\* when it likes
SeqNext ==
    \E th \in {"c1", TimerThread} :
        \/ bundle_for(th)
        \/ getattr_msgs(th)
        \/ extend_in(th)
        \/ extend_event(th)
        \/ count_check(th)
        \/ count_sum(th)
        \/ size_check(th)
        \/ size_sum(th)
        \/ timer_fire(th)
        \/ run_now(th)
        \/ flatten_begin(th)
        \/ flatten_end(th)
        \/ setattr_req(th)
        \/ api_return(th)
        \/ sizes_end(th)
        \/ loop_begin(th)
        \/ except_begin(th)
        \/ distribute(th)
        \/ distribute_exc(th)
        \/ loop_result(th)
        \/ loop_set(th)
        \/ finally_in(th)
        \/ finally_event(th)
        \/ cancel_event(th)
        \/ cancel_msgs(th)
        \/ cancel_no_canceller(th)

SeqSpec == Init /\ [][SeqNext]_vars

\* calls of compute_bundle_id, for every pair of requests and list of fields
IdInit ==
    /\ options = Options(0, 0, 0)
    /\ bundle_desc = [subresponse_field |-> FALSE]
    /\ assignable = TRUE
    /\ id_call \in [obj1 : IdRequests, obj2 : IdRequests, fields : IdFieldLists,
                     ids : {<<>>}]
    /\ NewExecutor

IdNext == compute

IdSpec == IdInit /\ [][IdNext]_vars

----------------------------------------------------------------------------
(* Notions the properties share. *)

\* no thread is inside schedule, cancel or the timer's callback
AllQuiet == \A th \in Threads : thr[th].pc \in {"idle", "pending", "done"}

\* the Task objects created so far
Created == {t \in TaskIds : task[t].bundle_id # 0}

\* number of messages before the i-th group of q
RECURSIVE Offset(_, _)
Offset(q, i) == IF i <= 1 THEN 0 ELSE Offset(q, i - 1) + Len(q[i - 1])

\* s holds the groups of q one after the other, in the order of q
IsConcat(s, q) ==
    /\ Len(s) = Offset(q, Len(q) + 1)
    /\ \A i \in 1..Len(q) : \A j \in 1..Len(q[i]) : s[Offset(q, i) + j] = q[i][j]

\* the handles made for Task t whose cancel has not returned True, given
\* the Event objects ev
Joined(ev, t) == {h \in EventIds : ev[h].task = t /\ ev[h].cancel # "True"}

\* how often message m occurs in s
Occurs(s, m) == Cardinality({k \in 1..Len(s) : s[k] = m})

\* how often message m occurs in the groups of the handles in hs
RECURSIVE OccursIn(_, _, _)
OccursIn(ev, hs, m) ==
    IF hs = {} THEN 0
    ELSE LET h == CHOOSE x \in hs : TRUE
         IN  Occurs(ev[h].msgs, m) + OccursIn(ev, hs \ {h}, m)

Messages == UNION {{g[k] : k \in 1..Len(g)} : g \in MsgGroups}

\* message count and byte size of the groups of the handles in hs
RECURSIVE CountOf(_, _)
CountOf(ev, hs) ==
    IF hs = {} THEN 0
    ELSE LET h == CHOOSE x \in hs : TRUE
         IN  Len(ev[h].msgs) + CountOf(ev, hs \ {h})

RECURSIVE BytesOf(_, _)
BytesOf(ev, hs) ==
    IF hs = {} THEN 0
    ELSE LET h == CHOOSE x \in hs : TRUE
             g == ev[h].msgs
         IN  Occurs(g, 1) + 2 * Occurs(g, 10) + BytesOf(ev, hs \ {h})

\* bundle flow as the Executor runs it: no caller has called set() or
\* clear() on an Event (ev: the Event objects)
NormalFlow(ev) == \A h \in EventIds : ev[h].user = "none"

\* no run of a Task has been overlapped by a schedule or cancel on that Task
NoOverlap == \A t \in TaskIds : ~task[t].overlap

\* the result and the flag of every Event are what they were
ResultsUnchanged == \A h \in EventIds : /\ event'[h].result = event[h].result
                                        /\ event'[h].isset = event[h].isset

----------------------------------------------------------------------------
(* C1: firing at the count threshold. *)

\* C1: with a count threshold N > 0, when a schedule call returns its Event:
\* if the messages of the un-cancelled handles of its Task number N or more,
\* the Task has been run in that call (api_call invoked exactly once, with
\* exactly those messages), all those handles are fulfilled and the bundle
\* id is out of the registry; if they number less than N (and the size
\* threshold is not reached either) the Task has not been run and is still
\* registered.
C1_CountThresholdFires ==
    [][\A h \in EventIds :
          (/\ options.message_count_threshold > 0
           /\ NormalFlow(event')
           /\ event[h].state = "running"
           /\ event'[h].state = "returned")
          => LET t == event'[h].task
                 bid == task'[t].bundle_id
                 hs == Joined(event', t)
             IN  IF CountOf(event', hs) >= options.message_count_threshold
                 THEN /\ task'[t].calls = 1
                      /\ tasks'[bid] = 0
                      /\ \A m \in Messages :
                            Occurs(task'[t].sent, m) = OccursIn(event', hs, m)
                      /\ \A g \in hs : event'[g].isset
                 ELSE (~(/\ options.message_bytesize_threshold > 0
                         /\ BytesOf(event', hs) >= options.message_bytesize_threshold))
                      => /\ task'[t].calls = 0
                         /\ tasks'[bid] = t
                         /\ \A g \in hs : ~event'[g].isset
      ]_vars

\* three calls of one message each have reached a count threshold of 3, with
\* no other threshold set, and the Task has been run for all three
C1_Witness ==
    /\ options.message_count_threshold = 3
    /\ options.message_bytesize_threshold = 0
    /\ options.delay_threshold = 0
    /\ AllQuiet
    /\ \E t \in Created :
          /\ task[t].done
          /\ task[t].calls = 1
          /\ Len(task[t].ranEv) = 3
          /\ \A k \in 1..3 : /\ event[task[t].ranEv[k]].isset
                             /\ event[task[t].ranEv[k]].state = "returned"

----------------------------------------------------------------------------
(* C5: one firing per Task. *)

\* C5: no Task has its api_call invoked more than once; a thread runs a
\* Task only after it has itself taken that Task out of the registry, and
\* only that thread invokes the Task's api_call; and a _run_now that finds
\* its bundle id absent changes no Task, no Event and the registry not at
\* all, calls nothing and raises nothing.
C5_OneFiringPerTask ==
    [][/\ \A t \in TaskIds :
            /\ task'[t].calls <= 1
            /\ task'[t].calls > task[t].calls =>
                  \E th \in Threads : thr[th].a_task = t /\ lock = th
       /\ \A th \in Threads :
            /\ (thr'[th].a_task # 0 /\ thr'[th].a_task # thr[th].a_task)
               => /\ tasks[thr[th].bid] = thr'[th].a_task
                  /\ tasks'[thr[th].bid] = 0
                  /\ \A o \in Threads \ {th} : thr[o].a_task # thr'[th].a_task
            /\ (/\ thr[th].pc = "run_now"
                /\ thr'[th].pc # "run_now"
                /\ tasks[thr[th].bid] = 0)
               => /\ task' = task
                  /\ tasks' = tasks
                  /\ ResultsUnchanged
                  /\ escaped' = escaped
                  /\ thr'[th].a_task = 0
      ]_vars

\* the timer's callback and a caller's threshold check are both about to
\* fire the same registered bundle
C5_Witness ==
    \E c \in Callers :
        /\ thr[c].pc = "run_now"
        /\ thr[TimerThread].pc = "run_now"
        /\ thr[c].bid = thr[TimerThread].bid
        /\ tasks[thr[c].bid] # 0
        /\ task[tasks[thr[c].bid]].in_deque # <<>>

----------------------------------------------------------------------------
(* C6: the combined call fails. *)

\* a thread is handling the failure of Task t's api_call
HandlingFailure(th) ==
    /\ thr[th].pc \in {"except", "distribute_exc", "result", "set", "finally", "finally_ev"}
    /\ thr[th].val.kind = "ApiError"

\* C6: once the run of a Task whose api_call raised is over (a run that no
\* schedule or cancel on the same Task overlapped, in normal flow), every
\* handle joined to it is fulfilled with that error and both its queues are
\* empty; the step that ends the run frees the lock and lets no exception
\* out of schedule or of the timer's callback; and the steps that handle the
\* failure change no other Task, no Event of another Task and no registry
\* entry.
C6_CallFailureDelivered ==
    [][/\ \A t \in TaskIds :
            (/\ task'[t].done
             /\ task'[t].resp.kind = "ApiError"
             /\ ~task'[t].overlap
             /\ NormalFlow(event'))
            => /\ \A h \in Joined(event', t) :
                     /\ event'[h].isset
                     /\ event'[h].result = [kind |-> "ApiError", call |-> t, sub |-> <<>>]
               /\ task'[t].in_deque = <<>>
               /\ task'[t].event_deque = <<>>
               /\ ~task[t].done => /\ lock' = "free"
                                   /\ escaped' = escaped
       /\ \A th \in Threads :
            (HandlingFailure(th) /\ thr'[th] # thr[th])
            => /\ tasks' = tasks
               /\ \A u \in TaskIds \ {thr[th].a_task} : task'[u] = task[u]
               /\ \A h \in EventIds :
                     event[h].task # thr[th].a_task =>
                         /\ event'[h].result = event[h].result
                         /\ event'[h].isset = event[h].isset
      ]_vars

\* a Task with two joined handles has failed and both hold the error, while
\* a Task of another bundle id is still queued, untouched
C6_Witness ==
    \E t, u \in Created :
        /\ task[t].done
        /\ ~task[t].overlap
        /\ task[t].resp.kind = "ApiError"
        /\ Len(task[t].ranEv) = 2
        /\ \A k \in 1..2 : event[task[t].ranEv[k]].result.kind = "ApiError"
        /\ task[u].bundle_id # task[t].bundle_id
        /\ tasks[task[u].bundle_id] = u
        /\ task[u].in_deque # <<>>

----------------------------------------------------------------------------
(* C8, C9: demultiplexing. *)

\* the run of Task t is over and api_call returned a response; no schedule
\* or cancel on the same Task overlapped the run, and no caller has called
\* set() or clear()
RanWithResponse(t) ==
    /\ task[t].done
    /\ task[t].resp.kind = "resp"
    /\ ~task[t].overlap
    /\ NormalFlow(event)

\* the groups of the handles hs, in the order of hs: each handle's own
\* message group, as its schedule call read it (ev: the Event objects)
OwnGroups(ev, hs) == [i \in 1..Len(hs) |-> ev[hs[i]].msgs]

\* C8: after the run (overlapped by no schedule or cancel on the same Task,
\* in normal flow) of a Task with a subresponse field whose response
\* carries as many subresponses as the joined handles have messages, the
\* i-th joined handle holds a copy of the response whose subresponse field
\* is the slice that starts after the sizes of the groups of the handles
\* before it and has the size of its own group; the slices, in join order,
\* make up the whole sequence.
C8_Demultiplexed ==
    \A t \in Created :
        LET S == task[t].resp.sub
            hs == task[t].ranEv
            own == OwnGroups(event, hs)
        IN  (/\ RanWithResponse(t)
             /\ task[t].subresponse_field
             /\ Len(S) = Offset(own, Len(own) + 1))
            => /\ \A i \in 1..Len(hs) :
                     /\ event[hs[i]].isset
                     /\ event[hs[i]].result.kind = "resp"
                     /\ event[hs[i]].result.call = t
                     /\ event[hs[i]].result.sub =
                            SubSeq(S, Offset(own, i) + 1, Offset(own, i + 1))
               /\ IsConcat(S, [i \in 1..Len(hs) |-> event[hs[i]].result.sub])

\* C9: after the run (overlapped by no schedule or cancel on the same Task,
\* in normal flow) of a Task with a subresponse field whose response
\* carries a number of subresponses other than the number of queued
\* messages, every queued handle holds the whole response as api_call
\* returned it, and none holds an error.
C9_MismatchGivesWhole ==
    \A t \in Created :
        (/\ RanWithResponse(t)
         /\ task[t].subresponse_field
         /\ Len(task[t].resp.sub) # Offset(task[t].ranIn, Len(task[t].ranIn) + 1))
        => \A i \in 1..Len(task[t].ranEv) :
              /\ event[task[t].ranEv[i]].isset
              /\ event[task[t].ranEv[i]].result = task[t].resp

\* a response with one subresponse too many has been given whole to two
\* handles
C9_Witness ==
    \E t \in Created :
        /\ RanWithResponse(t)
        /\ task[t].subresponse_field
        /\ Len(task[t].ranEv) = 2
        /\ Len(task[t].resp.sub) = Len(task[t].sent) + 1
        /\ \A k \in 1..2 : event[task[t].ranEv[k]].result = task[t].resp

----------------------------------------------------------------------------
(* C10: one call for all callers, without a subresponse field. *)

\* C10: for a Task without a subresponse field, in a run that no schedule
\* or cancel on the same Task overlaps (and in normal flow): api_call is
\* invoked at most once, with the queued groups concatenated in queue
\* order; after a run in which it returned X every queued handle holds X;
\* and a run that finds no queued group invokes nothing and fulfils nothing.
C10_FanInFanOut ==
    [][/\ \A t \in Created :
            (~task'[t].subresponse_field /\ ~task'[t].overlap /\ NormalFlow(event')) =>
                /\ task'[t].calls <= 1
                /\ task'[t].calls > task[t].calls => task'[t].ranIn = task'[t].in_deque
                /\ task'[t].calls = 1 =>
                      /\ task'[t].ranIn # <<>>
                      /\ IsConcat(task'[t].sent, task'[t].ranIn)
                /\ (task'[t].done /\ task'[t].resp.kind = "resp") =>
                      /\ Len(task'[t].ranEv) = Len(task'[t].ranIn)
                      /\ \A i \in 1..Len(task'[t].ranEv) :
                            /\ event'[task'[t].ranEv[i]].isset
                            /\ event'[task'[t].ranEv[i]].result =
                                   [kind |-> "resp", call |-> t, sub |-> <<>>]
       /\ \A th \in Threads :
            (/\ thr[th].pc = "run_now"
             /\ thr'[th].pc # "run_now"
             /\ tasks[thr[th].bid] # 0
             /\ task[tasks[thr[th].bid]].in_deque = <<>>)
            => /\ \A t \in TaskIds : /\ task'[t].calls = task[t].calls
                                      /\ task'[t].in_deque = task[t].in_deque
                                      /\ task'[t].event_deque = task[t].event_deque
               /\ ResultsUnchanged
               /\ thr'[th].a_task = 0
               /\ lock' = lock
      ]_vars

\* one response has been handed to the two callers of a Task without a
\* subresponse field, whose groups differ
C10_Witness ==
    \E t \in Created :
        /\ RanWithResponse(t)
        /\ ~task[t].subresponse_field
        /\ Len(task[t].ranEv) = 2
        /\ task[t].ranIn[1] # task[t].ranIn[2]
        /\ \A k \in 1..2 : event[task[t].ranEv[k]].result = task[t].resp

----------------------------------------------------------------------------
(* C4: the lock and the combined call. *)

\* C4: whenever the api_call of some Task is in progress, the Executor's
\* lock is free, so that a concurrent schedule is not held up in _bundle_for.
C4_LockFreeDuringCall ==
    \A th \in Threads : thr[th].pc = "api" => lock = "free"

----------------------------------------------------------------------------
(* C3: a cancel that races with the firing. *)

\* C3: in normal flow, for a handle that was queued before its Task was
\* taken out of the registry, whose cancel() has returned and whose Task has
\* been run, exactly one holds: the firing fulfilled it and cancel returned
\* False, or cancel returned True and it is not fulfilled; and a handle
\* whose cancel returned True is never fulfilled.
C3_CancelOrFulfil ==
    NormalFlow(event) =>
        \A h \in EventIds :
            (event[h].task # 0 /\ ~task[event[h].task].late) =>
                /\ event[h].cancel = "True" => ~event[h].isset
                /\ (event[h].cancel = "False" /\ task[event[h].task].done)
                   => event[h].isset

----------------------------------------------------------------------------
(* C2: firing by the timer alone. *)

\* only the delay threshold is set
DelayOnly ==
    /\ options.delay_threshold > 0
    /\ options.message_count_threshold <= 0
    /\ options.message_bytesize_threshold <= 0

\* C2: with only the delay threshold set (and a request type that lets
\* run() set its field; no run overlapped by a schedule or cancel), once no
\* call is in progress and no timer is still to fire, every handle that
\* schedule returned and that was not cancelled has been fulfilled: nothing
\* is left that only a further call could fire.
C2_TimerFiresEveryTask ==
    (/\ DelayOnly
     /\ assignable
     /\ NormalFlow(event)
     /\ NoOverlap
     /\ AllQuiet
     /\ thr[TimerThread].pc # "pending") =>
        \A h \in EventIds :
            (event[h].state = "returned" /\ event[h].cancel # "True") => event[h].isset

----------------------------------------------------------------------------
(* C7: setattr fails in Task.run. *)

\* C7: when the request type refuses the assignment of the bundled field
\* (and no run is overlapped by a schedule or cancel), no exception leaves
\* schedule or the timer's callback, and every handle that schedule returned
\* for a Task that was taken out of the registry is fulfilled.
C7_SetupFailureDelivered ==
    (~assignable /\ NormalFlow(event) /\ NoOverlap) =>
        /\ escaped = {}
        /\ \A h \in EventIds : event[h].state # "raised"
        /\ AllQuiet =>
              \A h \in EventIds :
                  (/\ event[h].state = "returned"
                   /\ event[h].cancel # "True"
                   /\ tasks[task[event[h].task].bundle_id] # event[h].task)
                      => event[h].isset

----------------------------------------------------------------------------
(* C11: a cancel that succeeds. *)

\* the i-th queued group of Task t is the group of its i-th queued handle,
\* given the Task and Event objects tk and ev
Aligned(tk, ev, t) ==
    /\ Len(tk[t].in_deque) = Len(tk[t].event_deque)
    /\ \A i \in 1..Len(tk[t].event_deque) :
          tk[t].in_deque[i] = ev[tk[t].event_deque[i]].msgs

\* C11: when cancel() returns True for a handle, the handle is gone from the
\* handle queue, the message count of its Task has gone down by the size of
\* its group, and every handle that is left still stands at the index of
\* its own group, in the order it had (also when groups have equal content).
C11_CancelIsLocal ==
    [][\A h \in EventIds :
          (event[h].cancel = "calling" /\ event'[h].cancel = "True")
          => LET t == event[h].task
             IN  /\ ~Contains(task'[t].event_deque, h)
                 /\ message_count(task'[t].in_deque) =
                        message_count(task[t].in_deque) - Len(event[h].msgs)
                 /\ Aligned(task', event', t)
      ]_vars

----------------------------------------------------------------------------
(* C12: a cancel that fails. *)

\* a cancel() on Event h begins in this step
CancelBegins(h) ==
    \/ event[h].cancel = "none" /\ event'[h].cancel # "none"
    \/ event[h].again = "none" /\ event'[h].again # "none"

\* C12: a cancel() on a handle whose Task has been run to its end (in a run
\* that no schedule or cancel on the same Task overlapped), or whose earlier
\* cancel() returned True, or that has no canceller, returns False at once,
\* raises nothing, and changes no queue, no registry entry and neither the
\* result nor the flag of any handle.
C12_FailedCancelIsValue ==
    [][\A h \in EventIds :
          (/\ CancelBegins(h)
           /\ \/ /\ event[h].task # 0
                 /\ task[event[h].task].done
                 /\ ~task[event[h].task].overlap
              \/ event[h].cancel = "True"
              \/ event'[h].state = "own")
          => /\ IF event[h].cancel = "none" THEN event'[h].cancel = "False"
                ELSE event'[h].again = "False"
             /\ task' = task
             /\ tasks' = tasks
             /\ ResultsUnchanged
             /\ escaped' = escaped
             /\ thr' = thr
      ]_vars

\* a handle was cancelled before its Task fired, the Task has since been run
\* for another handle, and a second cancel() on the first has returned False
C12_Witness ==
    \E h \in EventIds :
        /\ event[h].cancel = "True"
        /\ event[h].again = "False"
        /\ task[event[h].task].done
        /\ ~task[event[h].task].overlap
        /\ task[event[h].task].ranEv # <<>>

----------------------------------------------------------------------------
(* C13: a handle is fulfilled once. *)

\* C13: in normal flow (no caller calls set() or clear()), a handle that is
\* set holds a result, stays set, and its result is never assigned again: no
\* step changes the result of a handle that is already set, also when the
\* loop that hands out the results fails after some handles have been
\* served.
C13_OneShotHandle ==
    [][NormalFlow(event') =>
          \A h \in EventIds :
              /\ event'[h].isset => event'[h].result # NoneVal
              /\ event[h].isset => /\ event'[h].isset
                                   /\ event'[h].result = event[h].result
      ]_vars

----------------------------------------------------------------------------
(* C14: the registry. *)

\* the handles whose schedule call took Task t from _bundle_for
HandlesOf(ev, th_, t) ==
    {h \in EventIds : \/ ev[h].task = t
                      \/ \E th \in Callers : th_[th].h = h /\ th_[th].t = t
                                               /\ th_[th].pc \in {"getattr", "extend_in",
                                                                    "extend_ev"}}

\* C14: a schedule call takes the Task registered under its bundle id, or,
\* when none is registered (none yet, or the last one was removed for
\* firing), registers a Task object never used before, with empty queues and
\* no call made; so a Task that was removed is never taken by a later call,
\* its api_call is sent only messages of its own handles, and a handle is
\* fulfilled only by the api_call of its own Task.
C14_RegistryFreshTask ==
    [][/\ \A th \in Callers :
            (thr[th].pc = "idle" /\ thr'[th].pc = "getattr")
            => LET t == thr'[th].t
                   bid == thr'[th].bid
               IN  /\ tasks'[bid] = t
                   /\ tasks[bid] # 0 => t = tasks[bid]
                   /\ tasks[bid] = 0 => /\ task[t].bundle_id = 0
                                        /\ task'[t].bundle_id = bid
                                        /\ task'[t].in_deque = <<>>
                                        /\ task'[t].event_deque = <<>>
                                        /\ task'[t].calls = 0
                   /\ \A b \in BundleIds \ {bid} : tasks'[b] = tasks[b]
       /\ \A t \in TaskIds :
            task'[t].sent # task[t].sent =>
                \A m \in Messages :
                    Occurs(task'[t].sent, m) <= OccursIn(event', HandlesOf(event', thr', t), m)
       /\ \A h \in EventIds :
            event'[h].result # NoneVal => event'[h].result.call = event'[h].task
      ]_vars

\* two Tasks have been made for one bundle id: the first was fired and has
\* fulfilled its handle, the second is registered and holds a later group
C14_Witness ==
    \E t, u \in Created :
        /\ t # u
        /\ task[t].bundle_id = task[u].bundle_id
        /\ task[t].done
        /\ task[t].calls = 1
        /\ \E h \in EventIds : event[h].task = t /\ event[h].isset
        /\ tasks[task[u].bundle_id] = u
        /\ task[u].in_deque # <<>>
        /\ AllQuiet

----------------------------------------------------------------------------
(* C15: the caller's request object. *)

\* C15: the bundled field of every request passed to schedule still holds
\* the message group it held when schedule read it, whatever has been
\* scheduled or fired since (in runs that no schedule or cancel overlapped).
C15_RequestUntouched ==
    NoOverlap => \A h \in EventIds : event[h].msgs # <<>> => req[h] = event[h].msgs

----------------------------------------------------------------------------
(* C16: compute_bundle_id. *)

\* the value of a field of a request, stringified unless it is None
Stringified(obj, name) ==
    LET v == Traverse(obj, name)
    IN  IF v = PyNone THEN PyNone ELSE str(v)

\* C16: the bundle id holds, in the order of the fields, the stringified
\* value of every field, plain or dotted; so two requests whose fields have
\* equal stringified values get equal bundle ids, whatever the types of the
\* values.
C16_IdOfStringified ==
    id_call.ids # <<>> =>
        LET F == id_call.fields
        IN  /\ \A k \in 1..2 : Len(id_call.ids[k]) = Len(F)
            /\ \A k \in 1..Len(F) :
                  /\ id_call.ids[1][k] = Stringified(id_call.obj1, F[k])
                  /\ id_call.ids[2][k] = Stringified(id_call.obj2, F[k])
            /\ (\A k \in 1..Len(F) :
                    Stringified(id_call.obj1, F[k]) = Stringified(id_call.obj2, F[k]))
               => id_call.ids[1] = id_call.ids[2]

----------------------------------------------------------------------------
(* C17: no threshold set. *)

\* no threshold is positive
NoTrigger ==
    /\ options.message_count_threshold <= 0
    /\ options.message_bytesize_threshold <= 0
    /\ options.delay_threshold <= 0

\* C17: with no positive threshold no timer is ever made or started, every
\* Task made stays in the registry with no api_call invoked, no exception
\* leaves schedule, and (no caller calling set() itself) no handle is ever
\* fulfilled.
C17_NoTriggerNoFiring ==
    NoTrigger =>
        /\ timer = "None"
        /\ thr[TimerThread] = IdleThread
        /\ \A t \in Created : /\ tasks[task[t].bundle_id] = t
                              /\ task[t].calls = 0
                              /\ task[t].sent = <<>>
        /\ NormalFlow(event) =>
              \A h \in EventIds : ~event[h].isset /\ event[h].result = NoneVal
        /\ escaped = {}

\* with negative thresholds three calls have queued their groups on one
\* Task and have returned
C17_Witness ==
    /\ options.message_count_threshold < 0
    /\ options.message_bytesize_threshold < 0
    /\ options.delay_threshold < 0
    /\ AllQuiet
    /\ \E t \in Created :
          /\ Len(task[t].in_deque) = 3
          /\ \A k \in 1..3 : event[task[t].event_deque[k]].state = "returned"

----------------------------------------------------------------------------
(* C18: extend and the firing. *)

\* C18: when schedule appends its message group, and when it appends its
\* handle, the Task it appends to is still the one registered under the
\* bundle id: no firing has removed it since schedule looked it up.
C18_ExtendBeforeFiring ==
    [][\A th \in Callers :
          (thr[th].pc \in {"extend_in", "extend_ev"} /\ thr'[th].pc # thr[th].pc)
          => tasks[thr[th].bid] = thr[th].t
      ]_vars

----------------------------------------------------------------------------
(* C19: the two queues of a Task. *)

\* C19: whenever a thread starts to run a Task, the Task's two queues have
\* the same length and each handle stands at the index of its own message
\* group, so that run sends no group whose handle it will not fulfil; and
\* when run clears the handle queue every handle in it has been fulfilled
\* (no caller having called clear() on one).
C19_QueuesAligned ==
    [][\A th \in Threads :
          /\ (thr[th].pc = "run_now" /\ thr'[th].a_task # 0)
             => Aligned(task', event', thr'[th].a_task)
          /\ (thr[th].pc = "finally_ev" /\ thr'[th].pc # "finally_ev" /\ NormalFlow(event))
             => \A i \in 1..Len(task[thr[th].a_task].event_deque) :
                    event[task[thr[th].a_task].event_deque[i]].isset
      ]_vars

----------------------------------------------------------------------------
(* C20: what fires a Task. *)

\* thread th takes Task t out of the registry in this step, to run it
Fires(th, t) ==
    /\ thr[th].pc = "run_now"
    /\ thr'[th].pc # "run_now"
    /\ t # 0
    /\ tasks[thr[th].bid] = t
    /\ tasks'[thr[th].bid] = 0

\* C20: a Task leaves the registry only in _run_now, and only for a trigger
\* of its own: a schedule call removes only the Task it appended to, whose
\* message count or byte size has reached the positive threshold that the
\* call tested, and which was not fired earlier in the same call; the
\* timer's thread removes only the Task of the bundle id it was armed for.
C20_OwnTriggerOnly ==
    [][/\ \A b \in BundleIds :
            (tasks[b] # 0 /\ tasks'[b] = 0) => \E th \in Threads : Fires(th, tasks[b])
       /\ \A th \in Callers : \A t \in TaskIds :
            Fires(th, t)
            => /\ t = thr[th].t
               /\ task[t].calls = 0
               /\ thr[th].which = "count" => count_tested /\ count_reached(task[t].in_deque)
               /\ thr[th].which = "size" => size_tested /\ size_reached(task[t].in_deque)
       /\ \A t \in TaskIds :
            Fires(TimerThread, t)
            => /\ options.delay_threshold > 0
               /\ timer = "started"
               /\ task[t].bundle_id = thr[TimerThread].bid
      ]_vars

====
